---- MODULE Spec2Model ----
(***************************************************************************)
(* Model of the Drive download step (src/main.ts): the dispatcher, the run *)
(* phase, the download operation, the post phase and the URL parser, with  *)
(* the persisted step state, the remote API and the local filesystem as    *)
(* the environment.                                                        *)
(***************************************************************************)
EXTENDS Integers, Sequences, FiniteSets, TLC

(***************************************************************************)
(* Bounds of the model.                                                    *)
(***************************************************************************)
\* the largest number of entries a listing response carries
MaxEntries == 2
\* the largest number of times the host invokes the step's process in a job
MaxInvocations == 3
\* the longest identifier the URL parser is applied to
MaxIdLen == 2

(***************************************************************************)
(* JavaScript values and string operations.  Strings are TLA+ strings; the *)
(* value undefined is a string that no input and no URL path is equal to.  *)
(***************************************************************************)
Undefined == "<undefined>"

\* the TypeError `new URL(s)` throws when s is not a URL
Throws == "<TypeError>"

\* JavaScript truthiness of a string-or-undefined: !v is ~Truthy(v)
Truthy(v) == v # Undefined /\ v # ""

\* a ?? b: b only when a is null or undefined (an empty string is kept)
Nullish(a, b) == IF a = Undefined THEN b ELSE a

Min(a, b) == IF a < b THEN a ELSE b
Max(a, b) == IF a > b THEN a ELSE b

\* String.prototype.startsWith / endsWith
StartsWith(s, p) == Len(p) <= Len(s) /\ SubSeq(s, 1, Len(p)) = p
EndsWith(s, p) == Len(p) <= Len(s) /\ SubSeq(s, Len(s) - Len(p) + 1, Len(s)) = p

\* a slice that ignores its end index
SliceToEnd(s, from, to) == SubSeq(s, Min(from, Len(s)) + 1, Len(s))

\* String.prototype.slice(from, to): a negative index counts from the end;
\* the number -0 is 0, so slice(n, -0) is slice(n, 0), the empty string
Slice(s, from, to) ==
  LET a == IF from < 0 THEN Max(Len(s) + from, 0) ELSE Min(from, Len(s))
      b == IF to < 0 THEN Max(Len(s) + to, 0) ELSE Min(to, Len(s))
  IN IF a >= b THEN "" ELSE SubSeq(s, a + 1, b)

\* the index of the first character of s at or after i that is in cs,
\* Len(s) + 1 when there is none
RECURSIVE IndexOfAny(_, _, _)
IndexOfAny(s, cs, i) ==
  IF i > Len(s) THEN Len(s) + 1
  ELSE IF SubSeq(s, i, i) \in cs THEN i
  ELSE IndexOfAny(s, cs, i + 1)

\* the characters the URL parser percent-encodes in a path
PercentEncode(c) ==
  CASE c = " " -> "%20"
    [] c = "<" -> "%3C"
    [] c = ">" -> "%3E"
    [] c = "{" -> "%7B"
    [] c = "}" -> "%7D"
    [] OTHER -> c

RECURSIVE EncodePath(_, _)
EncodePath(s, i) ==
  IF i > Len(s) THEN ""
  ELSE PercentEncode(SubSeq(s, i, i)) \o EncodePath(s, i + 1)

\* the segments of a path "/a/b/c" as <<"a", "b", "c">> ("/" gives <<"">>)
RECURSIVE Segments(_, _)
Segments(s, i) ==
  LET j == IndexOfAny(s, {"/"}, i)
  IN IF j > Len(s) THEN <<SubSeq(s, i, Len(s))>>
     ELSE <<SubSeq(s, i, j - 1)>> \o Segments(s, j + 1)

\* the URL parser drops "." segments and lets ".." remove the segment before
RECURSIVE Normalise(_, _, _)
Normalise(segs, i, acc) ==
  IF i > Len(segs) THEN acc
  ELSE LET g == segs[i]
           last == i = Len(segs)
       IN IF g = ".."
          THEN Normalise(segs, i + 1,
                 (IF acc = <<>> THEN acc ELSE SubSeq(acc, 1, Len(acc) - 1))
                 \o (IF last THEN <<"">> ELSE <<>>))
          ELSE IF g = "."
          THEN Normalise(segs, i + 1, acc \o (IF last THEN <<"">> ELSE <<>>))
          ELSE Normalise(segs, i + 1, acc \o <<g>>)

RECURSIVE JoinSegments(_, _)
JoinSegments(segs, i) ==
  IF i > Len(segs) THEN ""
  ELSE "/" \o segs[i] \o JoinSegments(segs, i + 1)

\* new URL(s).pathname for an http(s) URL: the text after the authority up
\* to the query or fragment, percent-encoded, dot segments removed, "/" when
\* empty; Throws when s has no scheme
URLPathname(s) ==
  LET scheme == IF StartsWith(s, "https://") THEN "https://"
                ELSE IF StartsWith(s, "http://") THEN "http://" ELSE ""
      start == Len(scheme) + 1
      slash == IndexOfAny(s, {"/", "?", "#"}, start)
      stop == IndexOfAny(s, {"?", "#"}, slash)
      raw == SubSeq(s, slash, stop - 1)
  IN IF scheme = "" \/ slash = start THEN Throws
     ELSE IF raw = "" THEN "/"
     ELSE JoinSegments(Normalise(Segments(EncodePath(raw, 1), 2), 1, <<>>), 1)

\* parseDriveIdFromURL(isFile, path): the identifier, Undefined (with or
\* without an error log) or Throws; the second component tells whether
\* core.error was called
parseDriveIdFromURL(isFile, path) ==
  IF ~Truthy(path) THEN [id |-> Undefined, error |-> FALSE]
  ELSE LET prefix == IF isFile THEN "/file/d/" ELSE "/drive/folders/"
           suffix == IF isFile THEN "/view" ELSE ""
           urlPath == URLPathname(path)
       IN IF urlPath = Throws THEN [id |-> Throws, error |-> FALSE]
          ELSE IF ~StartsWith(urlPath, prefix) \/ ~EndsWith(urlPath, suffix)
          THEN [id |-> Undefined, error |-> TRUE]
          ELSE [id |-> Slice(urlPath, Len(prefix), 0 - Len(suffix)),
                error |-> FALSE]

\* getGoogleDriveUrl(driveId)
getGoogleDriveUrl(driveId) ==
  "https://www.googleapis.com/drive/v3/files/" \o Nullish(driveId, "")

(***************************************************************************)
(* The environment's inputs.                                               *)
(***************************************************************************)
TokenInputs == {"", "tok"}
FileIdInputs == {"", "F1"}
FileUrlInputs ==
  {"", "https://drive.google.com/file/d/X1/view?usp=sharing",
   "https://drive.google.com/open?id=X1"}
FolderIdInputs == {"", "D1"}
FolderUrlInputs ==
  {"", "https://drive.google.com/drive/folders/D2",
   "https://drive.google.com/drive/u/0/folders/D2"}
PathInputs == {"", "out"}

\* the names the remote service gives the listed entries (names need not
\* differ, and one may equal the destination path)
ListNames == {"a.txt", "b.txt", "out"}
FolderMime == "application/vnd.google-apps.folder"
MimeTypes == {FolderMime, "text/plain"}

\* the identifier of the i-th listed entry (the service's ids are distinct)
EntryId(i) == "id" \o ToString(i)

\* the bodies a 200 listing response can carry: up to MaxEntries entries
ListBodies ==
  UNION {[1..n -> [name : ListNames, mimeType : MimeTypes]] : n \in 0..MaxEntries}

\* the HTTP statuses the remote service answers with
ListStatuses == {200, 204, 403}
DownloadStatuses == {200, 204, 500}

\* path.join(dir, name), which the program never calls
Joined(dir, name) == dir \o "/" \o name

\* the local paths the model tracks: the destination, the bare remote names
\* and the remote names inside the destination
Paths ==
  (PathInputs \ {""}) \cup ListNames
    \cup {Joined(d, n) : d \in PathInputs \ {""}, n \in ListNames}

Absent == [kind |-> "absent", id |-> ""]
Directory == [kind |-> "dir", id |-> ""]

(***************************************************************************)
(* State.                                                                  *)
(***************************************************************************)
VARIABLES
  inputs,         \* the step's inputs (core.getInput reads them)
  rejectionMode,  \* what the runtime does on an unhandled rejection
  store,          \* the persisted step state, "" when a key is unset
  fsys,           \* the local filesystem: path -> [kind, id]
  proc,           \* the step's process: none, running, exited, crashed
  phases,         \* the phase each invocation so far has dispatched to
  pc,             \* where run() is: none, list, single, returned, threw
  fileIds,        \* run()'s fileIds array
  tasks,          \* the downloadFile calls made: [name, id, st, status]
  parse,          \* a call of parseDriveIdFromURL: its arguments and result
  listResp,       \* the listing response received: [status, files]
  trace           \* the effects performed so far, in order

vars ==
  <<inputs, rejectionMode, store, fsys, proc, phases, pc, fileIds, tasks,
    parse, listResp, trace>>

\* the part of the state a statement of the program can change
Cur ==
  [store |-> store, fsys |-> fsys, proc |-> proc, pc |-> pc,
   fileIds |-> fileIds, tasks |-> tasks, trace |-> trace]

Commit(c) ==
  /\ store' = c.store
  /\ fsys' = c.fsys
  /\ proc' = c.proc
  /\ pc' = c.pc
  /\ fileIds' = c.fileIds
  /\ tasks' = c.tasks
  /\ trace' = c.trace

Ev(op, key, val) == [op |-> op, key |-> key, val |-> val]

Emit(c, e) == [c EXCEPT !.trace = Append(@, e)]

(***************************************************************************)
(* The host SDK: state, inputs, failure flag, logs.                        *)
(***************************************************************************)
\* core.getState(key): "" when never saved
getState(st, key) == st[key]

\* core.saveState(key, value)
saveState(c, key, value) ==
  Emit([c EXCEPT !.store[key] = value], Ev("saveState", key, value))

\* core.getInput(name): the read is an effect, the value is inputs[name]
getInput(c, name) == Emit(c, Ev("getInput", name, inputs[name]))

\* core.setFailed(message)
setFailed(c, message) == Emit(c, Ev("setFailed", message, ""))

\* core.info / core.warning / core.error
log(c, level, message) == Emit(c, Ev(level, message, ""))

(***************************************************************************)
(* The failure messages.                                                   *)
(***************************************************************************)
MsgNoToken == "No access token provided to action"
MsgNoIdentifier ==
  "You must define one of following four inputs: fileId, fileUrl, folderId, folderUrl"
MsgNoPath == "No path provided to action"
MsgUnknownFile == "Unknown file id"
MsgNoFolder == "Action could not determine folder id"
MsgNoFiles == "Failed to find any files to download"
MsgList(status) ==
  "Failed to list files in folder from Google drive: " \o ToString(status)
MsgDownload(status) ==
  "Failed to get file from Google drive: " \o ToString(status)

(***************************************************************************)
(* Faults and the process.                                                 *)
(***************************************************************************)
InFlight == {"request", "opening", "piping"}

\* the process dies: every download still in flight dies with it
Kill(c) ==
  [c EXCEPT !.proc = "crashed",
            !.tasks = [i \in DOMAIN @ |->
                         IF @[i].st \in InFlight
                         THEN [@[i] EXCEPT !.st = "killed"] ELSE @[i]]]

\* a promise nobody handles is rejected: the runtime either throws (the
\* process dies) or only warns (the process goes on)
UnhandledRejection(c) == IF rejectionMode = "throw" THEN Kill(c) ELSE c

\* axios.get resolves only for a 2xx status (its default validateStatus,
\* which no call overrides); any other status rejects the promise
Resolves(status) == status >= 200 /\ status < 300

\* the check both callers make on a resolved response
StatusOk(status) == status = 200

(***************************************************************************)
(* downloadFile (the download operation).                                  *)
(***************************************************************************)
\* downloadFile up to its await: the retrieve-content request is issued
downloadFileCall(c, file) ==
  Emit([c EXCEPT !.tasks = Append(@, [name |-> file.name, id |-> file.id,
                                      st |-> "request", status |-> 0])],
       Ev("axios.get", getGoogleDriveUrl(file.id), "alt=media"))

\* downloadFile after a resolved response with a status other than 200
downloadFileFailed(c, i, status) ==
  setFailed([c EXCEPT !.tasks[i].st = "failed"], MsgDownload(status))

\* a download that saves the path state only when none is saved yet
downloadFileWriteOnce(c, i) ==
  LET file == c.tasks[i]
      c1 == IF getState(c.store, "path") = ""
            THEN saveState(c, "path", file.name) ELSE c
      c2 == Emit(c1, Ev("createWriteStream", file.name, file.id))
  IN [c2 EXCEPT !.tasks[i].st = "opening"]

\* downloadFile after a 200 response: state, write stream, pipe; the call
\* returns while the stream is still to be opened and written
downloadFileWrite(c, i) ==
  LET file == c.tasks[i]
      c1 == saveState(c, "path", file.name)
      c2 == Emit(c1, Ev("createWriteStream", file.name, file.id))
  IN [c2 EXCEPT !.tasks[i].st = "opening"]

\* the response to the i-th download's request arrives
downloadFileResume(c0, i, status) ==
  LET c == [c0 EXCEPT !.tasks[i].status = status]
  IN IF ~Resolves(status)
     THEN Emit([c EXCEPT !.tasks[i].st = "rejected"],
               Ev("reject", "download", ToString(status)))
     ELSE IF ~StatusOk(status) THEN downloadFileFailed(c, i, status)
     ELSE downloadFileWrite(c, i)

(***************************************************************************)
(* run (the run phase).                                                    *)
(***************************************************************************)
\* a run phase that never checks the token
NoTokenUnchecked(token) == FALSE

NoToken(token) == ~Truthy(token)

\* a run phase that never checks the four identifier inputs
NoIdentifierUnchecked(fileId, fileUrl, folderId, folderUrl) == FALSE

NoIdentifier(fileId, fileUrl, folderId, folderUrl) ==
  ~Truthy(fileId) /\ ~Truthy(fileUrl) /\ ~Truthy(folderId) /\ ~Truthy(folderUrl)

NoPath(path) == ~Truthy(path)

\* a run phase that takes the file branch for a file URL only
IsFileUrlOnly(fileId, fileUrl) == Truthy(fileUrl)

\* isFile = fileId || fileUrl
IsFile(fileId, fileUrl) == Truthy(fileId) \/ Truthy(fileUrl)

\* an input is a string, never undefined, so ?? keeps it even when empty
\* and the URL is parsed only if the id input were undefined
ResolveId(isFile, id, url) ==
  IF id # Undefined THEN [id |-> id, error |-> FALSE]
  ELSE parseDriveIdFromURL(isFile, url)

\* run() returns
Return(c) == [c EXCEPT !.pc = "returned"]

\* run() throws: its promise is rejected and nobody handles it
Throw(c, what) ==
  UnhandledRejection(Emit([c EXCEPT !.pc = "threw"], Ev("reject", "run", what)))

\* fs.mkdirSync(path): throws when something is at the path already
mkdirFails(c, path) == c.fsys[path].kind # "absent"

mkdirSync(c, path) ==
  Emit([c EXCEPT !.fsys[path] = Directory], Ev("mkdirSync", path, ""))

\* a loop that writes each file inside the directory made at path
RECURSIVE downloadEachJoined(_, _)
downloadEachJoined(c, i) ==
  IF i > Len(c.fileIds) THEN c
  ELSE downloadEachJoined(
         downloadFileCall(c, [name |-> Joined(inputs["path"], c.fileIds[i].name),
                              id |-> c.fileIds[i].id]),
         i + 1)

\* fileIds.forEach(async fileId => await downloadFile(token, fileId))
RECURSIVE downloadEach(_, _)
downloadEach(c, i) ==
  IF i > Len(c.fileIds) THEN c
  ELSE downloadEach(downloadFileCall(c, c.fileIds[i]), i + 1)

\* a branch that does not await the one download
dispatchOnCountNoAwait(c, path) ==
  IF Len(c.fileIds) = 0 THEN Return(setFailed(c, MsgNoFiles))
  ELSE IF Len(c.fileIds) = 1 THEN Return(downloadFileCall(c, c.fileIds[1]))
  ELSE IF mkdirFails(c, path)
  THEN Throw(Emit(c, Ev("mkdirSync", path, "EEXIST")), "mkdirSync")
  ELSE Return(downloadEach(mkdirSync(c, path), 1))

\* a branch that waits for all the downloads before run() returns
dispatchOnCountJoin(c, path) ==
  IF Len(c.fileIds) = 0 THEN Return(setFailed(c, MsgNoFiles))
  ELSE IF Len(c.fileIds) = 1
  THEN [downloadFileCall(c, c.fileIds[1]) EXCEPT !.pc = "single"]
  ELSE IF mkdirFails(c, path)
  THEN Throw(Emit(c, Ev("mkdirSync", path, "EEXIST")), "mkdirSync")
  ELSE [downloadEach(mkdirSync(c, path), 1) EXCEPT !.pc = "joining"]

\* a branch that goes on when the directory cannot be made
dispatchOnCountKeepGoing(c, path) ==
  IF Len(c.fileIds) = 0 THEN Return(setFailed(c, MsgNoFiles))
  ELSE IF Len(c.fileIds) = 1
  THEN [downloadFileCall(c, c.fileIds[1]) EXCEPT !.pc = "single"]
  ELSE IF mkdirFails(c, path)
  THEN Return(downloadEach(Emit(c, Ev("mkdirSync", path, "EEXIST")), 1))
  ELSE Return(downloadEach(mkdirSync(c, path), 1))

\* the branch on fileIds.length that ends run()
dispatchOnCount(c, path) ==
  IF Len(c.fileIds) = 0 THEN Return(setFailed(c, MsgNoFiles))
  ELSE IF Len(c.fileIds) = 1
  THEN [downloadFileCall(c, c.fileIds[1]) EXCEPT !.pc = "single"]
  ELSE IF mkdirFails(c, path)
  THEN Throw(Emit(c, Ev("mkdirSync", path, "EEXIST")), "mkdirSync")
  ELSE Return(downloadEach(mkdirSync(c, path), 1))

\* a listing loop that skips nothing
IsFolderEntryNever(file) == FALSE

IsFolderEntry(file) == file.mimeType = FolderMime

\* a listing loop that names every file by the destination path, as the
\* file branch does
RECURSIVE collectFilesByPath(_, _, _)
collectFilesByPath(c, files, i) ==
  IF i > Len(files) THEN c
  ELSE IF IsFolderEntry(files[i]) THEN collectFilesByPath(c, files, i + 1)
  ELSE collectFilesByPath(
         [c EXCEPT !.fileIds = Append(@, [name |-> inputs["path"],
                                          id |-> EntryId(i)])],
         files, i + 1)

\* response.data.files.forEach(...): folder entries are skipped
RECURSIVE collectFiles(_, _, _)
collectFiles(c, files, i) ==
  IF i > Len(files) THEN c
  ELSE IF IsFolderEntry(files[i])
  THEN collectFiles(
         log(c, "warning", "Folder with name " \o files[i].name
               \o " found, skipping as nested folders are not supported"),
         files, i + 1)
  ELSE collectFiles(
         log([c EXCEPT !.fileIds = Append(@, [name |-> files[i].name,
                                              id |-> EntryId(i)])],
             "info", "Adding file " \o files[i].name
               \o " to list of files to download"),
         files, i + 1)

\* the file branch of run()
runFile(c, fileId, fileUrl, path) ==
  LET r == ResolveId(TRUE, fileId, fileUrl)
      c1 == IF r.error
            THEN log(c, "error", "file-url path seems ill-formed: " \o fileUrl \o ")")
            ELSE c
  IN IF r.id = Throws THEN Throw(c, "TypeError")
     ELSE IF ~Truthy(r.id) THEN Return(setFailed(c1, MsgUnknownFile))
     ELSE dispatchOnCount(
            [log(c1, "info", "Downloading file with Id " \o fileId)
               EXCEPT !.fileIds = <<[name |-> path, id |-> r.id]>>],
            path)

\* the folder branch of run(), up to the await of the listing request
runFolder(c, folderId, folderUrl) ==
  LET r == ResolveId(FALSE, folderId, folderUrl)
      c1 == IF r.error
            THEN log(c, "error", "file-url path seems ill-formed: " \o folderUrl \o ")")
            ELSE c
  IN IF r.id = Throws THEN Throw(c, "TypeError")
     ELSE IF ~Truthy(r.id) THEN Return(setFailed(c1, MsgNoFolder))
     ELSE [Emit(log(c1, "info", "Searching folder with Id " \o r.id),
                Ev("axios.get", getGoogleDriveUrl(Undefined),
                   "'" \o r.id \o "' in parents"))
             EXCEPT !.pc = "list"]

\* a run phase that does not persist isPost
runEnterNoSave(c) == c

\* the first statement of run()
runEnter(c) == saveState(c, "isPost", "true")

\* run() from its first statement to its first await, return or throw
runStart(c0) ==
  LET c1 == getInput(runEnter(c0), "token")
      c2 == getInput(getInput(getInput(getInput(c1,
              "file-id"), "file-url"), "folder-id"), "folder-url")
      c3 == getInput(c2, "path")
      i == inputs
  IN IF NoToken(i["token"]) THEN Return(setFailed(c1, MsgNoToken))
     ELSE IF NoIdentifier(i["file-id"], i["file-url"], i["folder-id"], i["folder-url"])
     THEN Return(setFailed(c2, MsgNoIdentifier))
     ELSE IF NoPath(i["path"]) THEN Return(setFailed(c3, MsgNoPath))
     ELSE IF IsFile(i["file-id"], i["file-url"])
     THEN runFile(c3, i["file-id"], i["file-url"], i["path"])
     ELSE runFolder(c3, i["folder-id"], i["folder-url"])

\* run() resumed by the listing response
runListed(c, status, files) ==
  IF ~Resolves(status) THEN Throw(c, ToString(status))
  ELSE IF ~StatusOk(status) THEN Return(setFailed(c, MsgList(status)))
  ELSE dispatchOnCount(collectFiles(c, files, 1), inputs["path"])

\* run() resumed by the end of the one downloadFile call it awaits
runAwaited(c) ==
  IF c.pc # "single" THEN c
  ELSE IF c.tasks[1].st = "rejected" THEN Throw(c, "download")
  ELSE Return(c)

\* a post phase with its commented-out statements active: the file at the
\* saved path is removed
postCleanup(c) ==
  LET path == getState(c.store, "path")
  IN IF Truthy(path) /\ c.fsys[path].kind # "absent"
     THEN Emit([c EXCEPT !.fsys[path] = Absent], Ev("rmSync", path, ""))
     ELSE c

\* post(): every statement of it is commented out
post(c) == c

\* a dispatcher that compares the saved string with a value never saved
IsPostPhaseStrict(st) == getState(st, "isPost") = "1"

\* the dispatcher's test
IsPostPhase(st) == Truthy(getState(st, "isPost"))

(***************************************************************************)
(* Initial state and actions.                                              *)
(***************************************************************************)
\* no call of the parser on its own
NoParse ==
  [isFile |-> FALSE, x |-> "", url |-> "", called |-> FALSE, id |-> "",
   error |-> FALSE]

Init ==
  /\ inputs \in {[k \in {"token", "file-id", "file-url", "folder-id",
                         "folder-url", "path"} |->
                    CASE k = "token" -> t [] k = "file-id" -> fi
                      [] k = "file-url" -> fu [] k = "folder-id" -> di
                      [] k = "folder-url" -> du [] OTHER -> p] :
                  t \in TokenInputs, fi \in FileIdInputs, fu \in FileUrlInputs,
                  di \in FolderIdInputs, du \in FolderUrlInputs, p \in PathInputs}
  /\ rejectionMode \in {"throw", "warn"}
  /\ store = [isPost |-> "", path |-> ""]
  /\ fsys \in {[p \in Paths |-> IF p \in d THEN Directory ELSE Absent] :
                d \in SUBSET (PathInputs \ {""})}
  /\ proc = "none"
  /\ phases = <<>>
  /\ pc = "none"
  /\ fileIds = <<>>
  /\ tasks = <<>>
  /\ parse = NoParse
  /\ listResp = [status |-> 0, files |-> <<>>]
  /\ trace = <<>>

\* the host starts the step's process: the dispatcher runs run() or post()
Dispatch ==
  /\ proc # "running"
  /\ Len(phases) < MaxInvocations
  /\ UNCHANGED <<parse, inputs, rejectionMode, listResp>>
  /\ IF IsPostPhase(store)
     THEN /\ phases' = Append(phases, "post")
          /\ Commit([post(Cur) EXCEPT !.proc = "exited"])
     ELSE /\ phases' = Append(phases, "run")
          /\ LET c == runStart([Cur EXCEPT !.proc = "running", !.pc = "none",
                                           !.fileIds = <<>>, !.tasks = <<>>])
             IN Commit(c)

\* the listing request completes
ListResponse ==
  /\ proc = "running"
  /\ pc = "list"
  /\ \E status \in ListStatuses :
       \E files \in (IF StatusOk(status) THEN ListBodies ELSE {<<>>}) :
         /\ Commit(runListed(Cur, status, files))
         /\ listResp' = [status |-> status, files |-> files]
  /\ UNCHANGED <<parse, inputs, rejectionMode, phases>>

\* a retrieve-content request completes
DownloadResponse ==
  /\ proc = "running"
  /\ \E i \in DOMAIN tasks :
       /\ tasks[i].st = "request"
       /\ \E status \in DownloadStatuses :
            LET c == downloadFileResume(Cur, i, status)
            IN Commit(IF pc = "single" THEN runAwaited(c)
                      ELSE IF c.tasks[i].st = "rejected"
                      THEN UnhandledRejection(c) ELSE c)
  /\ UNCHANGED <<parse, inputs, rejectionMode, phases, listResp>>

\* a write stream opens its file: the file is created or truncated; a
\* directory at the path is an error event nobody listens to
StreamOpen ==
  /\ proc = "running"
  /\ \E i \in DOMAIN tasks :
       /\ tasks[i].st = "opening"
       /\ IF fsys[tasks[i].name].kind = "dir"
          THEN Commit(Kill(Emit([Cur EXCEPT !.tasks[i].st = "streamError"],
                                Ev("uncaught", tasks[i].name, "EISDIR"))))
          ELSE Commit([Cur EXCEPT !.tasks[i].st = "piping",
                         !.fsys[tasks[i].name] =
                            [kind |-> "partial", id |-> tasks[i].id]])
  /\ UNCHANGED <<parse, inputs, rejectionMode, phases, listResp>>

\* a response body has been piped to its file completely
StreamFinish ==
  /\ proc = "running"
  /\ \E i \in DOMAIN tasks :
       /\ tasks[i].st = "piping"
       /\ Commit(Emit([Cur EXCEPT !.tasks[i].st = "finished",
                         !.fsys[tasks[i].name] =
                            [kind |-> "complete", id |-> tasks[i].id]],
                       Ev("finish", tasks[i].name, tasks[i].id)))
  /\ UNCHANGED <<parse, inputs, rejectionMode, phases, listResp>>

\* nothing is pending any more: the process ends
ProcessExit ==
  /\ proc = "running"
  /\ pc \in {"returned", "threw"}
  /\ \A i \in DOMAIN tasks : tasks[i].st \notin InFlight
  /\ proc' = "exited"
  /\ UNCHANGED <<parse, inputs, rejectionMode, store, fsys, phases, pc, fileIds,
                 tasks, listResp, trace>>

Next ==
  \/ Dispatch
  \/ ListResponse
  \/ DownloadResponse
  \/ StreamOpen
  \/ StreamFinish
  \/ ProcessExit

Spec == Init /\ [][Next]_vars

(***************************************************************************)
(* parseDriveIdFromURL on its own: the arguments are drawn from URLs built *)
(* around every identifier of up to MaxIdLen characters.                   *)
(***************************************************************************)
\* characters of identifiers, and characters the URL syntax gives a meaning
IdChars == {"a", "Z", "7", "-", "_", ".", "?", " "}

RECURSIVE Strings(_)
Strings(n) ==
  IF n = 0 THEN {""}
  ELSE {s \o ch : s \in Strings(n - 1), ch \in IdChars}

Identifiers == UNION {Strings(n) : n \in 1..MaxIdLen}

\* a shareable URL of the file grammar or of the folder grammar
FileUrlOf(id, tail) == "https://drive.google.com/file/d/" \o id \o "/view" \o tail
FolderUrlOf(id, tail) == "https://drive.google.com/drive/folders/" \o id \o tail

UrlTails == {"", "?usp=sharing"}

InitParse ==
  /\ inputs = [k \in {"token", "file-id", "file-url", "folder-id",
                       "folder-url", "path"} |-> ""]
  /\ rejectionMode = "throw"
  /\ store = [isPost |-> "", path |-> ""]
  /\ fsys = [p \in Paths |-> Absent]
  /\ proc = "none"
  /\ phases = <<>>
  /\ pc = "none"
  /\ fileIds = <<>>
  /\ tasks = <<>>
  /\ listResp = [status |-> 0, files |-> <<>>]
  /\ trace = <<>>
  /\ parse \in
       {[isFile |-> f, x |-> id, called |-> FALSE, id |-> "", error |-> FALSE,
         url |-> IF g THEN FileUrlOf(id, t) ELSE FolderUrlOf(id, t)] :
          f \in BOOLEAN, g \in BOOLEAN, id \in Identifiers, t \in UrlTails}

\* parseDriveIdFromURL(isFile, url) is called
ParseCall ==
  /\ ~parse.called
  /\ LET r == parseDriveIdFromURL(parse.isFile, parse.url)
     IN parse' = [parse EXCEPT !.called = TRUE, !.id = r.id, !.error = r.error]
  /\ UNCHANGED <<inputs, rejectionMode, store, fsys, proc, phases, pc,
                 fileIds, tasks, listResp, trace>>

NextParse == ParseCall

SpecParse == InitParse /\ [][NextParse]_vars

(***************************************************************************)
(* What the trace tells.                                                   *)
(***************************************************************************)
EventsOf(op) == SelectSeq(trace, LAMBDA e : e.op = op)

\* the messages the step was flagged failed with, in order
Failures == [i \in DOMAIN EventsOf("setFailed") |-> EventsOf("setFailed")[i].key]

FailedWith(m) == \E i \in DOMAIN Failures : Failures[i] = m

\* the network requests issued, the listing ones and the retrieve-content ones
Requests == EventsOf("axios.get")
ListRequests == SelectSeq(Requests, LAMBDA e : e.val # "alt=media")
GetRequests == SelectSeq(Requests, LAMBDA e : e.val = "alt=media")

\* the retrieve-content request for an identifier
GetRequest(id) == Ev("axios.get", getGoogleDriveUrl(id), "alt=media")

\* a directory was created, or its creation attempted
MkdirAttempted == EventsOf("mkdirSync") # <<>>

\* no local file has been created or written
NoFileWritten ==
  /\ EventsOf("createWriteStream") = <<>>
  /\ \A p \in Paths : fsys[p].kind \in {"absent", "dir"}

\* the run phase was dispatched
RunStarted == phases # <<>> /\ phases[1] = "run"

\* the run phase has ended, by returning or by throwing
RunEnded == pc \in {"returned", "threw"}

(***************************************************************************)
(* C1  Phase dispatch.                                                     *)
(***************************************************************************)
\* C1: over any sequence of invocations sharing one state store that
\* starts empty, the first invocation runs the run phase and persists
\* isPost = true, and every later invocation runs the post phase: the run
\* phase runs exactly once and never after a post phase.
C1_PhaseDispatch ==
  /\ \A k \in DOMAIN phases : phases[k] = IF k = 1 THEN "run" ELSE "post"
  /\ phases # <<>> => getState(store, "isPost") = "true"

C1_Witness ==
  /\ Len(phases) >= 3
  /\ phases[1] = "run" /\ phases[2] = "post" /\ phases[3] = "post"

(***************************************************************************)
(* C2  isPost is persisted first and stays true.                           *)
(***************************************************************************)
\* C2: the first effect of the run phase is to persist isPost = true (before
\* any input is read, failure flagged, request issued or filesystem
\* operation attempted), so isPost is true whenever the run phase has ended,
\* however it ended, and no later effect saves another value.
C2_IsPostFirst ==
  /\ trace # <<>> => trace[1] = Ev("saveState", "isPost", "true")
  /\ RunStarted => trace # <<>>
  /\ RunEnded => getState(store, "isPost") = "true"
  /\ \A k \in DOMAIN trace :
       trace[k].op = "saveState" /\ trace[k].key = "isPost"
         => trace[k].val = "true"
  /\ phases # <<>> => getState(store, "isPost") = "true"

\* the run phase ended by an uncaught fault of the filesystem
C2_Witness ==
  /\ pc = "threw"
  /\ MkdirAttempted
  /\ getState(store, "isPost") = "true"

(***************************************************************************)
(* C3  Configuration errors do no remote or local work.                    *)
(***************************************************************************)
ConfigMessages ==
  {MsgNoToken, MsgNoIdentifier, MsgNoPath, MsgUnknownFile, MsgNoFolder}

\* an input is missing: the token, all four identifiers, or the path
InputMissing ==
  \/ inputs["token"] = ""
  \/ /\ inputs["file-id"] = "" /\ inputs["file-url"] = ""
     /\ inputs["folder-id"] = "" /\ inputs["folder-url"] = ""
  \/ inputs["path"] = ""

NoWorkDone ==
  /\ Requests = <<>>
  /\ ~MkdirAttempted
  /\ NoFileWritten
  /\ getState(store, "path") = ""

\* C3: a run phase whose token, identifiers (all four) or path are missing,
\* or whose identifier does not resolve, flags the step failed with the
\* configuration message and returns having issued no network request,
\* created no directory, written no file and saved no path state.
C3_ConfigErrors ==
  /\ RunStarted /\ InputMissing =>
       /\ pc = "returned"
       /\ Len(Failures) = 1
       /\ Failures[1] \in {MsgNoToken, MsgNoIdentifier, MsgNoPath}
       /\ NoWorkDone
  /\ (\E m \in ConfigMessages : FailedWith(m)) =>
       /\ pc = "returned"
       /\ Len(Failures) = 1
       /\ NoWorkDone

C3_Witness ==
  /\ FailedWith(MsgUnknownFile)
  /\ inputs["token"] # "" /\ inputs["path"] # ""
  /\ proc = "exited"

(***************************************************************************)
(* C4  A file URL resolves to the file it names.                           *)
(***************************************************************************)
WellFormedFileUrl == "https://drive.google.com/file/d/X1/view?usp=sharing"
WellFormedFolderUrl == "https://drive.google.com/drive/folders/D2"

\* C4: with token and path set, file-id empty and file-url a well-formed
\* file URL for X1, the run phase issues exactly one retrieve-content
\* request, for X1, and does not fail with "Unknown file id".
C4_FileUrlResolved ==
  (/\ RunStarted
   /\ inputs["token"] # "" /\ inputs["path"] # ""
   /\ inputs["file-id"] = "" /\ inputs["file-url"] = WellFormedFileUrl)
  => /\ ~FailedWith(MsgUnknownFile)
     /\ GetRequests = <<GetRequest("X1")>>

(***************************************************************************)
(* C5  A folder URL resolves to the folder it names.                       *)
(***************************************************************************)
\* C5: with token and path set, file-id, file-url and folder-id empty and
\* folder-url a well-formed folder URL for D2, the run phase issues one
\* listing request whose filter names D2 and does not fail with "Action
\* could not determine folder id".
C5_FolderUrlResolved ==
  (/\ RunStarted
   /\ inputs["token"] # "" /\ inputs["path"] # ""
   /\ inputs["file-id"] = "" /\ inputs["file-url"] = ""
   /\ inputs["folder-id"] = "" /\ inputs["folder-url"] = WellFormedFolderUrl)
  => /\ ~FailedWith(MsgNoFolder)
     /\ ListRequests =
          <<Ev("axios.get", getGoogleDriveUrl(Undefined), "'D2' in parents")>>

(***************************************************************************)
(* C6  An explicit file id.                                                *)
(***************************************************************************)
\* C6: with token set, file-id = F and path = P non-empty, whatever the
\* folder inputs: exactly one retrieve-content request is issued, for F, no
\* listing request is issued, no directory is created, the only local path
\* written is P, and a 200 response piped to its end leaves F's content
\* at P.
C6_ExplicitFileId ==
  (/\ RunStarted
   /\ inputs["token"] # "" /\ inputs["file-id"] # "" /\ inputs["path"] # "")
  => LET F == inputs["file-id"]
         P == inputs["path"]
     IN /\ GetRequests = <<GetRequest(F)>>
        /\ ListRequests = <<>>
        /\ ~MkdirAttempted
        /\ Len(tasks) = 1 /\ tasks[1].name = P /\ tasks[1].id = F
        /\ \A k \in DOMAIN trace :
             trace[k].op = "createWriteStream" => trace[k].key = P
        /\ \A p \in Paths \ {P} : fsys[p] = Absent
        /\ tasks[1].status = 200 =>
             /\ getState(store, "path") = P
             /\ EventsOf("createWriteStream") = <<Ev("createWriteStream", P, F)>>
        /\ tasks[1].st = "finished" =>
             fsys[P] = [kind |-> "complete", id |-> F]

C6_Witness ==
  /\ inputs["file-id"] = "F1" /\ inputs["folder-id"] = "D1"
  /\ inputs["folder-url"] # ""
  /\ Len(tasks) = 1 /\ tasks[1].st = "finished"
  /\ fsys["out"] = [kind |-> "complete", id |-> "F1"]

(***************************************************************************)
(* C7  Dispatch on the listing result.                                     *)
(***************************************************************************)
\* the positions of the listed entries that are not folders, in order
NonFolders ==
  SelectSeq([i \in DOMAIN listResp.files |-> i],
            LAMBDA i : listResp.files[i].mimeType # FolderMime)

\* the position in the trace of the first event of an operation, 0 if none
FirstIndex(op) ==
  IF \E k \in DOMAIN trace : trace[k].op = op
  THEN CHOOSE k \in DOMAIN trace :
         /\ trace[k].op = op
         /\ \A j \in 1..(k - 1) : trace[j].op # op
  ELSE 0

\* the run phase threw at mkdirSync
MkdirThrew == \E k \in DOMAIN trace : trace[k] = Ev("reject", "run", "mkdirSync")

\* the directory at path was created before the first download request
DirectoryCreatedFirst ==
  /\ MkdirAttempted /\ ~MkdirThrew
  /\ fsys[inputs["path"]] = Directory
  /\ \A k \in DOMAIN trace :
       trace[k].op = "axios.get" /\ trace[k].val = "alt=media"
         => FirstIndex("mkdirSync") < k

\* the download requests are those of the entries that are not folders
DownloadsAreNonFolders ==
  GetRequests = [k \in DOMAIN NonFolders |-> GetRequest(EntryId(NonFolders[k]))]

\* C7 as claimed: after a 200 listing response the download requests are
\* exactly those of the non-folder entries; with none the step fails with
\* "Failed to find any files to download"; with one no directory is
\* created; with two or more the directory is created before any download
\* request.
C7_Original ==
  listResp.status = 200 =>
    /\ DownloadsAreNonFolders
    /\ Len(NonFolders) = 0 => FailedWith(MsgNoFiles)
    /\ Len(NonFolders) = 1 => ~MkdirAttempted
    /\ Len(NonFolders) >= 2 => DirectoryCreatedFirst

\* C7 as amended: as claimed, except that with two or more non-folder
\* entries the creation of the directory is attempted first and, when it
\* throws, the run phase ends with no download request issued.
C7_DispatchOnCount ==
  listResp.status = 200 =>
    /\ Len(NonFolders) = 0 => FailedWith(MsgNoFiles) /\ GetRequests = <<>>
    /\ Len(NonFolders) = 1 => ~MkdirAttempted /\ DownloadsAreNonFolders
    /\ Len(NonFolders) >= 2 =>
         /\ MkdirAttempted
         /\ IF MkdirThrew
            THEN GetRequests = <<>> /\ pc = "threw"
            ELSE DirectoryCreatedFirst /\ DownloadsAreNonFolders

\* two files listed, the directory created, both requested
C7_Witness ==
  /\ listResp.status = 200
  /\ Len(NonFolders) = 2
  /\ Len(GetRequests) = 2
  /\ DirectoryCreatedFirst

(***************************************************************************)
(* C8  A listing response other than 200.                                  *)
(***************************************************************************)
\* C8: whenever the listing request completes with a status other than
\* 200, the step is flagged failed with the listing message carrying that
\* status, no download request is issued, no directory is created and no
\* path state is written.
C8_ListingNot200 ==
  listResp.status \notin {0, 200} =>
    /\ FailedWith(MsgList(listResp.status))
    /\ GetRequests = <<>>
    /\ ~MkdirAttempted
    /\ getState(store, "path") = ""

(***************************************************************************)
(* C9  A download response other than 200.                                 *)
(***************************************************************************)
\* C9: whenever a retrieve-content request completes with a status other
\* than 200, the step is flagged failed with the download message carrying
\* that status, and that call opens no write stream and leaves the path
\* state as it was (unset, when it is the only call).
C9_DownloadNot200 ==
  \A i \in DOMAIN tasks :
    tasks[i].status \notin {0, 200} =>
      /\ FailedWith(MsgDownload(tasks[i].status))
      /\ Len(tasks) = 1 => getState(store, "path") = ""
      /\ \A k \in DOMAIN trace :
           trace[k].op = "createWriteStream" => trace[k].val # tasks[i].id

(***************************************************************************)
(* C10  The single download is awaited.                                    *)
(***************************************************************************)
SingleReturned == pc = "returned" /\ Len(fileIds) = 1

\* C10 as claimed: when run() returns from the single-file branch, the
\* step is flagged failed for the download or the body is completely
\* written to the local file.
C10_Original ==
  SingleReturned =>
    \/ FailedWith(MsgDownload(tasks[1].status))
    \/ /\ tasks[1].st = "finished"
       /\ fsys[tasks[1].name] = [kind |-> "complete", id |-> tasks[1].id]

\* C10 as amended: when run() returns from the single-file branch, the
\* response of the download has arrived and downloadFile has returned:
\* either the step is flagged failed for the download, or the path state
\* is saved and the write stream to the file is created (its writing may
\* still be in flight).
C10_SingleAwaited ==
  SingleReturned =>
    /\ Len(tasks) = 1
    /\ tasks[1].status # 0
    /\ \/ FailedWith(MsgDownload(tasks[1].status))
       \/ /\ tasks[1].status = 200
          /\ getState(store, "path") = tasks[1].name
          /\ EventsOf("createWriteStream") =
               <<Ev("createWriteStream", tasks[1].name, tasks[1].id)>>

\* run() has returned and the stream is not even open yet
C10_Witness ==
  /\ SingleReturned
  /\ tasks[1].st = "opening"
  /\ fsys[tasks[1].name] = Absent

(***************************************************************************)
(* C11  The multi-file branch does not wait for its downloads.             *)
(***************************************************************************)
\* run() took the branch for two or more files
Multi == Len(fileIds) >= 2

\* C11: with two or more files resolved, run() has returned as soon as the
\* download requests are issued: it has returned, with no failure flagged,
\* while no download has its response yet, and it stays returned whatever
\* the downloads do later (so a download's failure is flagged after the
\* return).
C11_FireAndForget ==
  Multi /\ tasks # <<>> =>
    /\ pc = "returned"
    /\ Len(tasks) = Len(fileIds)
    /\ (\A i \in DOMAIN tasks : tasks[i].status = 0) => Failures = <<>>

\* run() has returned, one download has flagged its failure since, and
\* another has no response yet
C11_Witness ==
  /\ Multi /\ pc = "returned"
  /\ \E i, j \in DOMAIN tasks :
       /\ tasks[i].st = "failed"
       /\ FailedWith(MsgDownload(tasks[i].status))
       /\ tasks[j].st = "request"

(***************************************************************************)
(* C12  The post phase does nothing.                                       *)
(***************************************************************************)
\* the step just taken dispatched to the post phase
PostStep == phases' # phases /\ phases'[Len(phases')] = "post"

\* C12: an invocation that finds isPost true changes nothing: the persisted
\* state and the filesystem keep their values, no effect (request, failure
\* flag, log, deletion) is performed, and the downloads are left alone.
C12_PostNoOp ==
  [][PostStep =>
       /\ store' = store
       /\ fsys' = fsys
       /\ trace' = trace
       /\ tasks' = tasks /\ fileIds' = fileIds /\ pc' = pc]_vars

\* the post phase has run with a path saved and the file on disk
C12_Witness ==
  /\ Len(phases) >= 2 /\ phases[2] = "post"
  /\ getState(store, "path") = "out"
  /\ fsys["out"].kind = "complete"

(***************************************************************************)
(* C13  The file grammar of the URL parser.                                *)
(***************************************************************************)
\* C13: parseDriveIdFromURL(true, u), for u a URL whose path is
\* /file/d/X/view with X non-empty and free of "/", returns exactly X and
\* logs no error.
C13_FileGrammar ==
  (/\ parse.called /\ parse.isFile
   /\ URLPathname(parse.url) = "/file/d/" \o parse.x \o "/view")
  => parse.id = parse.x /\ ~parse.error

C13_Witness ==
  /\ parse.called /\ parse.isFile
  /\ parse.url = FileUrlOf("Z7", "?usp=sharing")
  /\ parse.id = "Z7" /\ ~parse.error

(***************************************************************************)
(* C14  The folder grammar of the URL parser.                              *)
(***************************************************************************)
\* C14: parseDriveIdFromURL(false, u), for u a URL whose path is
\* /drive/folders/X with X non-empty, returns exactly X.
C14_FolderGrammar ==
  (/\ parse.called /\ ~parse.isFile
   /\ URLPathname(parse.url) = "/drive/folders/" \o parse.x)
  => parse.id = parse.x

(***************************************************************************)
(* C15  A download's failure leaves its siblings alone.                    *)
(***************************************************************************)
\* C15: in the multi-file branch, the step in which a download gets a
\* response other than 200 flags that download's failure and changes no
\* sibling download: none is cancelled or skipped.
C15_SiblingIndependence ==
  [][\A i \in DOMAIN tasks :
       (/\ Multi /\ i \in DOMAIN tasks'
        /\ tasks[i].status = 0 /\ tasks'[i].status \notin {0, 200})
       => /\ trace' = Append(trace, Ev("setFailed",
                                        MsgDownload(tasks'[i].status), ""))
          /\ \A j \in DOMAIN tasks \ {i} : tasks'[j] = tasks[j]]_vars

(***************************************************************************)
(* C16  The path state under concurrent downloads.                         *)
(***************************************************************************)
LastOf(seq) == seq[Len(seq)]

\* the saves of the path state
PathWrites ==
  SelectSeq(trace, LAMBDA e : e.op = "saveState" /\ e.key = "path")

\* path is saved once per download that got a 200 response, never
\* otherwise, and names a file downloaded with status 200
PathWrittenPer200 ==
  /\ Len(PathWrites) = Cardinality({i \in DOMAIN tasks : tasks[i].status = 200})
  /\ getState(store, "path") # "" =>
       \E i \in DOMAIN tasks :
         tasks[i].status = 200 /\ tasks[i].name = getState(store, "path")

\* every download of a multi-file run has written its file to the end
AllFinished ==
  Multi /\ tasks # <<>> /\ \A i \in DOMAIN tasks : tasks[i].st = "finished"

\* C16 as claimed: path is saved once per 200 response, and after a
\* multi-file run whose downloads have all finished it names the file
\* whose write completed last.
C16_Original ==
  /\ PathWrittenPer200
  /\ AllFinished => getState(store, "path") = LastOf(EventsOf("finish")).key

\* C16 as amended: path is saved once per 200 response, when the response
\* is handled and before the file is written, so it names the file whose
\* 200 response was handled last (the last save wins), whichever file is
\* written to its end last.
C16_PathLastResponse ==
  /\ PathWrittenPer200
  /\ Multi /\ EventsOf("createWriteStream") # <<>> =>
       \E i \in DOMAIN tasks :
         /\ tasks[i].id = LastOf(EventsOf("createWriteStream")).val
         /\ getState(store, "path") = tasks[i].name

\* all downloads finished, and the file written last is not the one named
C16_Witness ==
  /\ AllFinished
  /\ getState(store, "path") = "b.txt"
  /\ LastOf(EventsOf("finish")).key = "a.txt"

(***************************************************************************)
(* C17  Write targets.                                                     *)
(***************************************************************************)
\* no two downloads that got to write have the same local path
WriteTargetsDisjoint ==
  \A i, j \in DOMAIN tasks :
    i # j /\ tasks[i].status = 200 /\ tasks[j].status = 200
      => tasks[i].name # tasks[j].name

\* the listed entries that are not folders have different names
ListedNamesDistinct ==
  \A i, j \in DOMAIN listResp.files :
    (/\ i # j
     /\ listResp.files[i].mimeType # FolderMime
     /\ listResp.files[j].mimeType # FolderMime)
    => listResp.files[i].name # listResp.files[j].name

\* C17 as claimed: whatever the listing response, no two downloads of a run
\* write to the same local path.
C17_Original == WriteTargetsDisjoint

\* C17 as amended: when the listed files have pairwise different names, no
\* two downloads of a run write to the same local path.
C17_DisjointTargets == ListedNamesDistinct => WriteTargetsDisjoint

\* two streams are being written at once, to different paths
C17_Witness ==
  /\ Len(tasks) = 2
  /\ tasks[1].st = "piping" /\ tasks[2].st = "piping"
  /\ tasks[1].name = "a.txt" /\ tasks[2].name = "b.txt"

(***************************************************************************)
(* C18  The directory cannot be created.                                   *)
(***************************************************************************)
\* fs.mkdirSync failed: something was at the path already
MkdirFailed ==
  \E k \in DOMAIN trace : trace[k].op = "mkdirSync" /\ trace[k].val = "EEXIST"

\* C18: when creating the directory at path fails in the multi-file
\* branch, the fault is not caught: run() ends by throwing, setFailed is
\* never called, no download request is issued, no path state is written
\* and isPost stays true.
C18_MkdirFault ==
  MkdirFailed =>
    /\ pc = "threw"
    /\ Failures = <<>>
    /\ GetRequests = <<>> /\ tasks = <<>>
    /\ getState(store, "path") = ""
    /\ getState(store, "isPost") = "true"
    /\ NoFileWritten

C18_Witness ==
  /\ MkdirFailed /\ Multi
  /\ pc = "threw"
  /\ proc \in {"crashed", "exited"}

(***************************************************************************)
(* C19  The order of the input checks.                                     *)
(***************************************************************************)
\* the message of the first check that fails, in the order token, the four
\* identifiers, path
FirstMissing ==
  IF inputs["token"] = "" THEN MsgNoToken
  ELSE IF /\ inputs["file-id"] = "" /\ inputs["file-url"] = ""
          /\ inputs["folder-id"] = "" /\ inputs["folder-url"] = ""
  THEN MsgNoIdentifier
  ELSE MsgNoPath

\* the names of the inputs read, in order
InputsRead == [k \in DOMAIN EventsOf("getInput") |-> EventsOf("getInput")[k].key]

\* C19: the token is checked first, then the four identifier inputs, then
\* the path, and run() stops at the first check that fails: exactly one
\* failure is flagged, the first applicable in that order, and no input of
\* a later check is read.
C19_CheckOrder ==
  RunStarted /\ InputMissing =>
    /\ pc = "returned"
    /\ Failures = <<FirstMissing>>
    /\ InputsRead =
         IF FirstMissing = MsgNoToken THEN <<"token">>
         ELSE IF FirstMissing = MsgNoIdentifier
         THEN <<"token", "file-id", "file-url", "folder-id", "folder-url">>
         ELSE <<"token", "file-id", "file-url", "folder-id", "folder-url", "path">>

\* a token, no identifier and no path: the four-input message is flagged
C19_Witness ==
  /\ inputs["token"] # "" /\ inputs["path"] = ""
  /\ inputs["file-id"] = "" /\ inputs["file-url"] = ""
  /\ inputs["folder-id"] = "" /\ inputs["folder-url"] = ""
  /\ Failures = <<MsgNoIdentifier>>

(***************************************************************************)
(* C20  Where the files of a folder are written.                           *)
(***************************************************************************)
JoinedPaths == {Joined(d, n) : d \in PathInputs \ {""}, n \in ListNames}

====
